---- MODULE Spec2Model ----
(***************************************************************************)
(* AudioDSP: the circular audio buffer (class AudioQueue of                *)
(* audioProcessor.cpp) as a state machine.                                 *)
(*                                                                         *)
(* Spec      one caller: every member function runs to completion          *)
(*           (push, pop, peek, peekFreshData, data_available,              *)
(*           space_available).                                             *)
(* SpecConc  three contexts (RecCallback, PlayCallback and a visualizer)   *)
(*           share one queue and interleave at the reads and writes of     *)
(*           inpos, outpos and the slots of audio[].                       *)
(***************************************************************************)
EXTENDS Integers, Sequences, FiniteSets, TLC

VARIABLES
    len,        \* AudioQueue::len
    audio,      \* AudioQueue::audio, a function 0..len-1 -> sample
    inpos,      \* AudioQueue::inpos
    outpos,     \* AudioQueue::outpos
    out,        \* the elements output[0..] written by the last call, in index order
    last,       \* the last call: its name, arguments and the exception it raised
    fifo,       \* history: the samples pushed and not yet popped, oldest first,
                \* each as <<input[i], volume>> of its push
    recent,     \* history: the newest samples pushed (at most len-1), oldest first,
                \* each as <<input[i], volume>> of its push
    reorder,    \* SpecConc: this build lets the stores of push become visible out
                \* of program order (inpos and audio[] are plain, unsynchronized)
    sb,         \* SpecConc: stores issued by push and not yet visible to the others
    prod,       \* SpecConc: RecCallback inside push: position and locals
    cons,       \* SpecConc: PlayCallback inside pop: position and locals
    ana,        \* SpecConc: a visualizer inside peekFreshData: position and locals
    produced,   \* SpecConc history: samples handed to pushes that passed validate_space
    visible,    \* SpecConc history: samples covered by the visible value of inpos
    popped,     \* SpecConc history: samples returned by completed pops, in order
    call,       \* the pure functions: one call, its arguments and, once it has
                \* run, its result
    all_chords, \* chordDictionary.cpp: the entries of all_chords written so far,
                \* in index order; the entries behind them still hold zeros
    chord_dictionary_initialized,
    callers     \* SpecLazy: the contexts inside identify_chord: position and locals

seqvars == <<len, audio, inpos, outpos, out, last, fifo, recent>>

concvars == <<reorder, sb, prod, cons, ana, produced, visible, popped>>

dictvars == <<all_chords, chord_dictionary_initialized, callers>>

purevars == <<call, dictvars>>

vars == <<seqvars, concvars, purevars>>

-----------------------------------------------------------------------------
(* Bounds and input sets *)

MaxLen == 3

\* SpecConc: the samples of the recording stream, numbered 1 .. MaxStream
MaxStream == 3

\* SpecConc: the largest sample count of one callback
MaxChunk == 2

\* sample values handed to push
Samples == {-3, 2}

\* volume as <<numerator, denominator>>: 1.0 and 0.5
Unity == <<1, 1>>

Volumes == {Unity, <<1, 2>>}

\* RecCallback and the tests push with the default volume = 1
PushVolumes == {Unity}

\* the sample counts tried against a queue of length l
Counts(l) == 0 .. l

Inputs(n) == [1 .. n -> Samples]

\* a push that fails never reads input[]: one array stands for all of them
SomeInput(n) == [i \in 1 .. n |-> CHOOSE s \in Samples : TRUE]

-----------------------------------------------------------------------------
(* Arithmetic of the C++ code *)

\* a / b of C++: the quotient truncated toward zero (b > 0)
CDiv(a, b) == IF a >= 0 THEN a \div b ELSE -((-a) \div b)

\* a % b of C++: the remainder has the sign of a (b > 0)
CRem(a, b) == a - b * CDiv(a, b)

\* sample = s * volume: the product converted to short, fraction discarded
Scale(s, v) == CDiv(s * v[1], v[2])

\* the last k elements of s
LastK(s, k) == IF Len(s) <= k THEN s ELSE SubSeq(s, Len(s) - k + 1, Len(s))

\* the unread count of the data model
Pending == (inpos - outpos + len) % len

-----------------------------------------------------------------------------
(* AudioQueue *)

data_available_gt(n) ==
    IF inpos >= outpos THEN (inpos - outpos) > n ELSE (inpos + len - outpos) > n

data_available(n) ==
    IF inpos >= outpos THEN (inpos - outpos) >= n ELSE (inpos + len - outpos) >= n

space_available_ge(n) ==
    IF inpos >= outpos THEN (outpos + len - inpos) >= n ELSE (outpos - inpos) >= n

space_available_wrapped_ge(n) ==
    IF inpos >= outpos THEN (outpos + len - inpos) > n ELSE (outpos - inpos) >= n

space_available(n) ==
    IF inpos >= outpos THEN (outpos + len - inpos) > n ELSE (outpos - inpos) > n

\* the loop of push: audio[(inpos + i) % len] = input[i] * volume, i = 0..n-1
PushAudio(x, n, v) ==
    [k \in DOMAIN audio |->
        LET hits == {i \in 0 .. (n - 1) : CRem(inpos + i, len) = k} IN
        IF hits = {} THEN audio[k]
        ELSE LET i == CHOOSE j \in hits : \A h \in hits : h <= j
             IN Scale(x[i + 1], v)]

PushInpos_nowrap(n) == inpos + n

PushInpos(n) == CRem(inpos + n, len)

PopOut_skip(n, v) == [i \in 1 .. n |-> Scale(audio[CRem(outpos + i, len)], v)]

\* the loop of pop: output[i] = audio[(outpos + i) % len] * volume
PopOut(n, v) == [i \in 1 .. n |-> Scale(audio[CRem(outpos + i - 1, len)], v)]

PopOutpos(n) == CRem(outpos + n, len)

PeekOut_unscaled(n, v) == [i \in 1 .. n |-> audio[CRem(outpos + i - 1, len)]]

\* the loop of peek: output[i] = audio[(outpos + i) % len] * volume
PeekOut(n, v) == [i \in 1 .. n |-> Scale(audio[CRem(outpos + i - 1, len)], v)]

FreshOut_late(n, v) ==
    [j \in 1 .. n |-> Scale(audio[CRem(len + inpos - (n - j), len)], v)]

\* the loop of peekFreshData:
\* output[n - i - 1] = audio[(len + inpos - i - 1) % len] * volume
FreshOut(n, v) ==
    [j \in 1 .. n |-> Scale(audio[CRem(len + inpos - (n - j) - 1, len)], v)]

\* new sample[len] leaves the slots unset; no call reads a slot before a push
\* has written it (validate_data admits only written slots), so the content
\* of an unset slot is fixed to a value no push can store
Fresh == Scale(0, Unity)

Thrown_late(n) == n

\* validate_space and validate_data are the first statement of push, pop, peek
\* and peekFreshData: the number of iterations of the copy loop that ran
\* before the exception left the call
Thrown(n) == 0

Call(op, n, v, err) == [op |-> op, n |-> n, vol |-> v, err |-> err]

\* a context outside any call: pc is its position, n the sample count of its
\* call, i the loop index, seen the value of inpos the visualizer holds, cond
\* the outcome of inpos >= outpos, own the producer's latest value of inpos,
\* from the stream position the other side had reached when the call began
\* (the visible write position for a reader, the read position for push);
\* out and err are the output and the exception of the last call
Idle == [pc |-> "idle", n |-> 0, i |-> 0, seen |-> 0, cond |-> TRUE, own |-> 0,
         from |-> 0, out |-> <<>>, err |-> "none"]

\* the static storage of chordDictionary.cpp before any call
DictionaryUnbuilt ==
    /\ all_chords = <<>>
    /\ chord_dictionary_initialized = FALSE
    /\ callers = <<>>

\* no pure function is being called
NoCall == [fn |-> "none", arg |-> <<>>, done |-> TRUE, res |-> <<>>]

Init ==
    /\ call = NoCall
    /\ DictionaryUnbuilt
    /\ reorder = FALSE
    /\ sb = <<>>
    /\ prod = Idle
    /\ cons = Idle
    /\ ana = Idle
    /\ produced = 0
    /\ visible = 0
    /\ popped = <<>>
    /\ len \in 1 .. MaxLen
    /\ audio = [k \in 0 .. (len - 1) |-> Fresh]
    /\ inpos = 0
    /\ outpos = 0
    /\ out = <<>>
    /\ last = Call("AudioQueue", len, Unity, "none")
    /\ fifo = <<>>
    /\ recent = <<>>

Push(x, n, v) ==
    /\ UNCHANGED <<concvars, purevars>>
    /\ IF space_available(n)
       THEN /\ audio' = PushAudio(x, n, v)
            /\ inpos' = PushInpos(n)
            /\ fifo' = fifo \o [i \in 1 .. n |-> <<x[i], v>>]
            /\ recent' = LastK(recent \o [i \in 1 .. n |-> <<x[i], v>>], len - 1)
            /\ last' = Call("push", n, v, "none")
            /\ out' = <<>>
            /\ UNCHANGED <<len, outpos>>
       ELSE /\ last' = Call("push", n, v, "overflow")
            /\ audio' = PushAudio(x, Thrown(n), v)
            /\ out' = <<>>
            /\ UNCHANGED <<len, inpos, outpos, fifo, recent>>

Pop(n, v) ==
    /\ UNCHANGED <<concvars, purevars>>
    /\ IF data_available(n)
       THEN /\ out' = PopOut(n, v)
            /\ outpos' = PopOutpos(n)
            /\ fifo' = IF n < 0 THEN fifo ELSE SubSeq(fifo, n + 1, Len(fifo))
            /\ last' = Call("pop", n, v, "none")
            /\ UNCHANGED <<len, audio, inpos, recent>>
       ELSE /\ last' = Call("pop", n, v, "underflow")
            /\ out' = PopOut(Thrown(n), v)
            /\ UNCHANGED <<len, audio, inpos, outpos, fifo, recent>>

Peek(n, v) ==
    /\ UNCHANGED <<concvars, purevars>>
    /\ IF data_available(n)
       THEN /\ out' = PeekOut(n, v)
            /\ last' = Call("peek", n, v, "none")
            /\ UNCHANGED <<len, audio, inpos, outpos, fifo, recent>>
       ELSE /\ last' = Call("peek", n, v, "underflow")
            /\ out' = PeekOut(Thrown(n), v)
            /\ UNCHANGED <<len, audio, inpos, outpos, fifo, recent>>

PeekFreshData(n, v) ==
    /\ UNCHANGED <<concvars, purevars>>
    /\ IF data_available(n)
       THEN /\ out' = FreshOut(n, v)
            /\ last' = Call("peekFreshData", n, v, "none")
            /\ UNCHANGED <<len, audio, inpos, outpos, fifo, recent>>
       ELSE /\ last' = Call("peekFreshData", n, v, "underflow")
            /\ out' = FreshOut(Thrown(n), v)
            /\ UNCHANGED <<len, audio, inpos, outpos, fifo, recent>>

\* a call of data_available: the answer is recorded in last.err
DataAvailable(n) ==
    /\ UNCHANGED <<concvars, purevars>>
    /\ last' = Call("data_available", n, Unity,
                    IF data_available(n) THEN "true" ELSE "false")
    /\ out' = <<>>
    /\ UNCHANGED <<len, audio, inpos, outpos, fifo, recent>>

SpaceAvailable(n) ==
    /\ UNCHANGED <<concvars, purevars>>
    /\ last' = Call("space_available", n, Unity,
                    IF space_available(n) THEN "true" ELSE "false")
    /\ out' = <<>>
    /\ UNCHANGED <<len, audio, inpos, outpos, fifo, recent>>

Next ==
    \/ \E n \in Counts(len), v \in PushVolumes :
           \E x \in (IF space_available(n) THEN Inputs(n) ELSE {SomeInput(n)}) :
               Push(x, n, v)
    \/ \E n \in Counts(len), v \in Volumes : Pop(n, v)
    \/ \E n \in Counts(len), v \in Volumes : Peek(n, v)
    \/ \E n \in Counts(len), v \in Volumes : PeekFreshData(n, v)
    \/ \E n \in Counts(len) : DataAvailable(n)
    \/ \E n \in Counts(len) : SpaceAvailable(n)

Spec == Init /\ [][Next]_vars

-----------------------------------------------------------------------------
(* Three contexts on one queue.  RecCallback pushes the recording stream,     *)
(* whose samples are numbered 1, 2, 3, ...; PlayCallback pops; a visualizer   *)
(* calls peekFreshData.  No member of AudioQueue is atomic or locked, so the  *)
(* contexts interleave at each read of the other side's cursor and at each    *)
(* slot access, and the stores of push reach the other contexts either in     *)
(* program order or, when reorder holds, in any order that keeps the stores   *)
(* to one location in order.                                                  *)

\* the volume PlayCallback pops with
EchoVolume == Unity

ConcInit ==
    /\ call = NoCall
    /\ DictionaryUnbuilt
    /\ reorder \in BOOLEAN
    /\ sb = <<>>
    /\ prod = Idle
    /\ cons = Idle
    /\ ana = Idle
    /\ produced = 0
    /\ visible = 0
    /\ popped = <<>>
    /\ len = MaxLen
    /\ audio = [k \in 0 .. (len - 1) |-> Fresh]
    /\ inpos = 0
    /\ outpos = 0
    /\ out = <<>>
    /\ last = Call("AudioQueue", len, Unity, "none")
    /\ fifo = <<>>
    /\ recent = <<>>

\* push is entered; space_available evaluates inpos >= outpos
PushCall(n) ==
    /\ prod.pc = "idle"
    /\ produced + n <= MaxStream
    /\ prod' = [prod EXCEPT !.pc = "validate", !.n = n,
                            !.cond = (prod.own >= outpos),
                            !.from = Len(popped), !.err = "none"]
    /\ UNCHANGED <<seqvars, reorder, sb, cons, ana, produced, visible, popped>>
    /\ UNCHANGED purevars

\* space_available reads outpos again for the chosen branch; validate_space
\* throws or lets push go on
PushValidate ==
    /\ prod.pc = "validate"
    /\ LET ok == IF prod.cond THEN (outpos + len - prod.own) > prod.n
                              ELSE (outpos - prod.own) > prod.n
       IN IF ok
          THEN /\ prod' = [prod EXCEPT !.pc = "copy", !.cond = TRUE,
                                       !.from = 0]
               /\ produced' = produced + prod.n
          ELSE /\ prod' = [prod EXCEPT !.pc = "idle", !.cond = TRUE,
                                       !.from = 0, !.err = "overflow"]
               /\ UNCHANGED produced
    /\ UNCHANGED <<seqvars, reorder, sb, cons, ana, visible, popped>>
    /\ UNCHANGED purevars

\* one iteration of the loop of push: the store to audio[(inpos + i) % len]
PushStore ==
    /\ prod.pc = "copy"
    /\ prod.i < prod.n
    /\ sb' = Append(sb, [loc |-> "audio", k |-> CRem(prod.own + prod.i, len),
                         val |-> Scale(produced - prod.n + prod.i + 1, Unity)])
    /\ prod' = [prod EXCEPT !.i = prod.i + 1]
    /\ UNCHANGED <<seqvars, reorder, cons, ana, produced, visible, popped>>
    /\ UNCHANGED purevars

\* inpos = (inpos + n_samples) % len, and push returns
PushAdvance ==
    /\ prod.pc = "copy"
    /\ prod.i = prod.n
    /\ sb' = Append(sb, [loc |-> "inpos", k |-> produced,
                         val |-> CRem(prod.own + prod.n, len)])
    /\ prod' = [prod EXCEPT !.pc = "idle", !.i = 0,
                            !.own = CRem(prod.own + prod.n, len)]
    /\ UNCHANGED <<seqvars, reorder, cons, ana, produced, visible, popped>>
    /\ UNCHANGED purevars

SameLoc(a, b) == a.loc = b.loc /\ (a.loc = "inpos" \/ a.k = b.k)

\* the j-th pending store of push becomes visible to the other contexts
Flush(j) ==
    /\ j \in 1 .. Len(sb)
    /\ reorder \/ j = 1
    /\ \A h \in 1 .. (j - 1) : ~SameLoc(sb[h], sb[j])
    /\ IF sb[j].loc = "audio"
       THEN /\ audio' = [audio EXCEPT ![sb[j].k] = sb[j].val]
            /\ UNCHANGED <<inpos, visible>>
       ELSE /\ inpos' = sb[j].val
            /\ visible' = sb[j].k
            /\ UNCHANGED audio
    /\ sb' = [h \in 1 .. (Len(sb) - 1) |-> IF h < j THEN sb[h] ELSE sb[h + 1]]
    /\ UNCHANGED <<len, outpos, out, last, fifo, recent,
                   reorder, prod, cons, ana, produced, popped>>
    /\ UNCHANGED purevars

\* pop is entered; data_available evaluates inpos >= outpos
PopCall(n) ==
    /\ cons.pc = "idle"
    /\ cons' = [cons EXCEPT !.pc = "validate", !.n = n,
                            !.cond = (inpos >= outpos),
                            !.from = visible, !.out = <<>>, !.err = "none"]
    /\ UNCHANGED <<seqvars, reorder, sb, prod, ana, produced, visible, popped>>
    /\ UNCHANGED purevars

\* data_available reads inpos again for the chosen branch; validate_data
\* throws or lets pop go on
PopValidate ==
    /\ cons.pc = "validate"
    /\ LET ok == IF cons.cond THEN (inpos - outpos) >= cons.n
                              ELSE (inpos + len - outpos) >= cons.n
       IN cons' = [cons EXCEPT !.pc = IF ok THEN "copy" ELSE "idle",
                               !.cond = TRUE,
                               !.from = 0,
                               !.err = IF ok THEN "none" ELSE "underflow"]
    /\ UNCHANGED <<seqvars, reorder, sb, prod, ana, produced, visible, popped>>
    /\ UNCHANGED purevars

\* one iteration of the loop of pop: the load of audio[(outpos + i) % len]
PopLoad ==
    /\ cons.pc = "copy"
    /\ cons.i < cons.n
    /\ cons' = [cons EXCEPT
                  !.out = Append(cons.out,
                                 Scale(audio[CRem(outpos + cons.i, len)], EchoVolume)),
                  !.i = cons.i + 1]
    /\ UNCHANGED <<seqvars, reorder, sb, prod, ana, produced, visible, popped>>
    /\ UNCHANGED purevars

\* outpos = (outpos + n_samples) % len, and pop returns
PopAdvance ==
    /\ cons.pc = "copy"
    /\ cons.i = cons.n
    /\ outpos' = CRem(outpos + cons.n, len)
    /\ popped' = popped \o cons.out
    /\ cons' = [cons EXCEPT !.pc = "idle", !.i = 0, !.out = <<>>]
    /\ UNCHANGED <<len, audio, inpos, out, last, fifo, recent,
                   reorder, sb, prod, ana, produced, visible>>
    /\ UNCHANGED purevars

\* peekFreshData is entered; data_available reads inpos
FreshCall(n) ==
    /\ ana.pc = "idle"
    /\ ana' = [ana EXCEPT !.pc = "cond", !.n = n, !.seen = inpos,
                          !.from = visible, !.out = <<>>, !.err = "none"]
    /\ UNCHANGED <<seqvars, reorder, sb, prod, cons, produced, visible, popped>>
    /\ UNCHANGED purevars

\* data_available reads outpos and decides inpos >= outpos
FreshCond ==
    /\ ana.pc = "cond"
    /\ ana' = [ana EXCEPT !.pc = "value", !.cond = (ana.seen >= outpos)]
    /\ UNCHANGED <<seqvars, reorder, sb, prod, cons, produced, visible, popped>>
    /\ UNCHANGED purevars

\* data_available reads inpos for the chosen branch
FreshValue ==
    /\ ana.pc = "value"
    /\ ana' = [ana EXCEPT !.pc = "validate", !.seen = inpos]
    /\ UNCHANGED <<seqvars, reorder, sb, prod, cons, produced, visible, popped>>
    /\ UNCHANGED purevars

\* data_available reads outpos for the chosen branch; validate_data throws or
\* lets peekFreshData go on
FreshValidate ==
    /\ ana.pc = "validate"
    /\ LET ok == IF ana.cond THEN (ana.seen - outpos) >= ana.n
                             ELSE (ana.seen + len - outpos) >= ana.n
       IN ana' = [ana EXCEPT !.pc = IF ok THEN "copy" ELSE "idle",
                             !.cond = TRUE,
                             !.seen = IF ok THEN ana.seen ELSE 0,
                             !.err = IF ok THEN "none" ELSE "underflow"]
    /\ UNCHANGED <<seqvars, reorder, sb, prod, cons, produced, visible, popped>>
    /\ UNCHANGED purevars

\* one iteration of the loop of peekFreshData:
\* output[n - i - 1] = audio[(len + inpos - i - 1) % len] * volume, where inpos
\* is read again or is the value the context already holds
FreshLoad ==
    /\ ana.pc = "copy"
    /\ ana.i < ana.n
    /\ \E in \in {inpos, ana.seen} :
          ana' = [ana EXCEPT
                    !.out = <<Scale(audio[CRem(len + in - ana.i - 1, len)], Unity)>>
                            \o ana.out,
                    !.seen = in,
                    !.i = ana.i + 1]
    /\ UNCHANGED <<seqvars, reorder, sb, prod, cons, produced, visible, popped>>
    /\ UNCHANGED purevars

\* peekFreshData returns
FreshReturn ==
    /\ ana.pc = "copy"
    /\ ana.i = ana.n
    /\ ana' = [ana EXCEPT !.pc = "idle", !.i = 0, !.seen = 0]
    /\ UNCHANGED <<seqvars, reorder, sb, prod, cons, produced, visible, popped>>
    /\ UNCHANGED purevars

ConcNext ==
    \/ \E n \in 1 .. MaxChunk : PushCall(n)
    \/ PushValidate
    \/ PushStore
    \/ PushAdvance
    \/ \E j \in 1 .. Len(sb) : Flush(j)
    \/ \E n \in 1 .. MaxChunk : PopCall(n)
    \/ PopValidate
    \/ PopLoad
    \/ PopAdvance
    \/ \E n \in 1 .. MaxChunk : FreshCall(n)
    \/ FreshCond
    \/ FreshValue
    \/ FreshValidate
    \/ FreshLoad
    \/ FreshReturn

SpecConc == ConcInit /\ [][ConcNext]_vars

-----------------------------------------------------------------------------
(* Properties of the queue under one caller (Spec) *)

\* the value a push stores for the history entry e = <<input[i], volume>>
Stored(e) == Scale(e[1], e[2])

\* the newest k pushed samples are in the slots just behind inpos
InArray(k) ==
    /\ k <= Len(recent)
    /\ \A j \in 1 .. k :
          audio[(inpos - k + j - 1 + len) % len] = Stored(recent[Len(recent) - k + j])

TypeOK ==
    /\ len \in 1 .. MaxLen
    /\ DOMAIN audio = 0 .. (len - 1)
    /\ Len(recent) <= len - 1
    /\ InArray(Len(recent))

\* C1: both cursors stay inside [0, len) and the unread count
\* (inpos - outpos + len) % len, which is the number of samples pushed and not
\* yet popped, never exceeds len - 1, whatever calls succeeded or failed.
C1_CursorInvariant ==
    /\ inpos \in 0 .. (len - 1)
    /\ outpos \in 0 .. (len - 1)
    /\ Pending = Len(fifo)
    /\ Len(fifo) <= len - 1

\* a full queue whose write cursor has wrapped behind the read cursor, just
\* after a push was refused
C1_Witness ==
    /\ last.op = "push" /\ last.err = "overflow"
    /\ inpos < outpos
    /\ Pending = len - 1

\* C2: a successful pop with volume 1.0 returns the oldest unread samples as
\* they were stored, in push order, and a sample pushed with volume 1.0 comes
\* back as the very value handed to push.
C2_FifoRoundTrip ==
    [][(last'.op = "pop" /\ last'.err = "none" /\ last'.vol = Unity) =>
          /\ Len(out') = last'.n
          /\ last'.n <= Len(fifo)
          /\ \A i \in 1 .. last'.n :
                /\ out'[i] = Stored(fifo[i])
                /\ fifo[i][2] = Unity => out'[i] = fifo[i][1]
          /\ fifo' = SubSeq(fifo, last'.n + 1, Len(fifo))]_vars

\* a pop of everything unread whose run wrapped past the end of audio[] and
\* returned two different samples, both pushed with volume 1.0
C2_Witness ==
    /\ last.op = "pop" /\ last.err = "none" /\ last.vol = Unity
    /\ last.n >= 2 /\ outpos >= 1 /\ outpos < last.n
    /\ Pending = 0
    /\ out[1] # out[2]
    /\ \A j \in 1 .. last.n : recent[Len(recent) - last.n + j] = <<out[j], Unity>>

\* C3: push raises overflow exactly when n exceeds the free slots
\* len - 1 - pending and raises nothing otherwise; a push of len samples is
\* refused in every state.
C3_Overflow ==
    [][last'.op = "push" =>
          /\ last'.err = (IF last'.n > len - 1 - Len(fifo) THEN "overflow" ELSE "none")
          /\ last'.n >= len => last'.err = "overflow"
          /\ last'.err = "overflow" => UNCHANGED <<inpos, outpos>>]_vars

\* a push of len samples refused by an empty queue
C3_Witness ==
    /\ last.op = "push" /\ last.err = "overflow"
    /\ last.n = len /\ Pending = 0

\* C4: pop and peek raise underflow exactly when n exceeds the unread count
\* and raise nothing otherwise.
C4_Underflow ==
    [][last'.op \in {"pop", "peek"} =>
          /\ last'.err = (IF last'.n > Len(fifo) THEN "underflow" ELSE "none")
          /\ (Len(fifo) = 0 /\ last'.n >= 1) => last'.err = "underflow"]_vars

\* a pop of one sample more than is unread, refused
C4_Witness ==
    /\ last.op = "pop" /\ last.err = "underflow"
    /\ last.n = Pending + 1

\* C5: space_available(n) holds exactly for n <= len - 1 - pending and
\* data_available(n) exactly for n <= pending; a new queue has room for
\* len - 1 samples, not for len, and no data; a call of either predicate
\* reports that answer and changes nothing.
C5_Predicates ==
    /\ [](/\ \A n \in 0 .. (len + 2) :
                /\ space_available(n) <=> n <= len - 1 - Len(fifo)
                /\ data_available(n) <=> n <= Len(fifo)
          /\ last.op = "AudioQueue" =>
                /\ space_available(len - 1)
                /\ ~space_available(len)
                /\ ~data_available(1))
    /\ [][/\ last'.op = "space_available" =>
                /\ last'.err = (IF last'.n <= len - 1 - Len(fifo) THEN "true" ELSE "false")
                /\ UNCHANGED <<len, audio, inpos, outpos>>
          /\ last'.op = "data_available" =>
                /\ last'.err = (IF last'.n <= Len(fifo) THEN "true" ELSE "false")
                /\ UNCHANGED <<len, audio, inpos, outpos>>]_vars

\* space_available answers false for one sample more than the free slots of a
\* queue whose write cursor has wrapped behind the read cursor
C5_Witness ==
    /\ last.op = "space_available" /\ last.err = "false"
    /\ inpos < outpos
    /\ last.n = len - Pending

\* C6: a successful peek writes what pop would write in the same state and
\* changes neither cursor nor any slot, and a pop of the same count and volume
\* right after it returns the same samples.
C6_PeekIsPop ==
    [][/\ (last'.op = "peek" /\ last'.err = "none") =>
             /\ out' = PopOut(last'.n, last'.vol)
             /\ \A i \in 1 .. last'.n : out'[i] = Scale(Stored(fifo[i]), last'.vol)
             /\ UNCHANGED <<len, audio, inpos, outpos, fifo>>
       /\ (/\ last.op = "peek" /\ last.err = "none"
           /\ last'.op = "pop" /\ last'.n = last.n /\ last'.vol = last.vol) =>
             /\ last'.err = "none"
             /\ out' = out]_vars

\* a peek at volume 0.5 of two or more samples whose run wraps past the end
\* of audio[]
C6_Witness ==
    /\ last.op = "peek" /\ last.err = "none" /\ last.vol # Unity
    /\ last.n >= 2 /\ outpos + last.n > len
    /\ out[1] # out[2]

\* C7: a successful peekFreshData with volume 1.0 writes the n newest pushed
\* samples, oldest first (output[n-1] is the last sample pushed), also when the
\* window wraps, and changes neither cursor.
C7_FreshWindow ==
    [][(last'.op = "peekFreshData" /\ last'.err = "none" /\ last'.vol = Unity) =>
          /\ Len(out') = last'.n
          /\ last'.n <= Len(recent)
          /\ \A j \in 1 .. last'.n :
                LET e == recent[Len(recent) - last'.n + j] IN
                /\ out'[j] = Stored(e)
                /\ e[2] = Unity => out'[j] = e[1]
          /\ UNCHANGED <<len, audio, inpos, outpos>>]_vars

\* a window of two or more samples that wraps past the end of audio[] and
\* holds two different samples
C7_Witness ==
    /\ last.op = "peekFreshData" /\ last.err = "none" /\ last.vol = Unity
    /\ last.n >= 2 /\ inpos >= 1 /\ inpos < last.n
    /\ out[1] # out[2]

\* C8: whenever the n newest pushed samples (n <= len - 1) are still in the
\* array, peekFreshData(out, n) succeeds and returns them, however many of
\* them pop has consumed.
C8_FreshIgnoresConsumer ==
    [][(/\ last'.op = "peekFreshData" /\ last'.vol = Unity
        /\ last'.n <= len - 1 /\ InArray(last'.n)) =>
          /\ last'.err = "none"
          /\ Len(out') = last'.n
          /\ \A j \in 1 .. last'.n :
                out'[j] = Stored(recent[Len(recent) - last'.n + j])]_vars

-----------------------------------------------------------------------------
(* Properties of the queue under three contexts (SpecConc) *)

\* C9: with RecCallback pushing and PlayCallback popping concurrently, the
\* samples returned by completed pops are a prefix of the pushed stream
\* 1, 2, 3, ... (none skipped, repeated, stale or unwritten), both cursors
\* stay in [0, len) and the unread count stays at most len - 1.
C9_SpscSafety ==
    /\ Len(popped) <= produced
    /\ \A j \in 1 .. Len(popped) : popped[j] = j
    /\ inpos \in 0 .. (len - 1)
    /\ outpos \in 0 .. (len - 1)
    /\ visible - Len(popped) \in 0 .. (len - 1)
    /\ Pending = visible - Len(popped)

\* C10: a peekFreshData that returns while push and pop run in other contexts
\* returns n consecutive samples of the pushed stream, ending at a write
\* position that was current during the call.
C10_FreshSnapshot ==
    (ana.pc = "idle" /\ ana.err = "none" /\ ana.n >= 1 /\ Len(ana.out) = ana.n) =>
        /\ \A j \in 1 .. ana.n : ana.out[j] = ana.out[ana.n] - (ana.n - j)
        /\ ana.out[1] >= 1
        /\ ana.out[ana.n] \in ana.from .. produced

\* the two properties when the stores of push become visible in program order
InOrder_SpscSafety == ~reorder => C9_SpscSafety

InOrder_FreshSnapshot == ~reorder => C10_FreshSnapshot

-----------------------------------------------------------------------------
(* The pure functions.  Every specification below draws one call with its
   arguments in its initial state and has one action per function, which runs
   the call and records what it returned or raised.  The queue is not
   involved and stays in its state after construction. *)

QueueUntouched ==
    /\ reorder = FALSE
    /\ sb = <<>>
    /\ prod = Idle
    /\ cons = Idle
    /\ ana = Idle
    /\ produced = 0
    /\ visible = 0
    /\ popped = <<>>
    /\ len = 1
    /\ audio = [k \in 0 .. (len - 1) |-> Fresh]
    /\ inpos = 0
    /\ outpos = 0
    /\ out = <<>>
    /\ last = Call("AudioQueue", len, Unity, "none")
    /\ fifo = <<>>
    /\ recent = <<>>

Pending_call(f, a) == [fn |-> f, arg |-> a, done |-> FALSE, res |-> <<>>]

Raised(e) == [err |-> e, out |-> <<>>]

Returned(o) == [err |-> "none", out |-> o]

-----------------------------------------------------------------------------
(* fft and FindFrequencyContent (SpecFft) *)

\* largest transform size of fft calls
MaxN == 8

\* largest block size of FindFrequencyContent calls
MaxBlock == 4

MAX_SAMPLE_VALUE == 32767

RECURSIVE Pow2Floor(_)
Pow2Floor(m) == IF m < 2 THEN 1 ELSE 2 * Pow2Floor(m \div 2)

(* cmplx.  Every twiddle factor of a transform of size n <= MaxN is a power of
   zeta = exp(2 pi i / RingOrder), so the values are kept exactly, as integer
   combinations of 1, zeta, ..., zeta^(Half - 1), with zeta^Half = -1.  The
   rounding of double arithmetic is not represented. *)
RingOrder == Pow2Floor(IF MaxN < 4 THEN 4 ELSE MaxN)

Half == RingOrder \div 2

cmplx(re, im) ==
    [j \in 0 .. (Half - 1) |-> IF j = 0 THEN re ELSE IF j = Half \div 2 THEN im ELSE 0]

real(z) == z[0]

imag(z) == z[Half \div 2]

CAdd(a, b) == [j \in 0 .. (Half - 1) |-> a[j] + b[j]]

CSub(a, b) == [j \in 0 .. (Half - 1) |-> a[j] - b[j]]

\* z * zeta^k
MulZeta(z, k) ==
    LET km == k % RingOrder
    IN  [j \in 0 .. (Half - 1) |->
            LET src == (j - km) % Half
                turns == (src + km) \div Half
            IN  IF turns % 2 = 0 THEN z[src] ELSE 0 - z[src]]

RECURSIVE CSum(_, _)
CSum(f, m) == IF m = 0 THEN cmplx(0, 0) ELSE CAdd(CSum(f, m - 1), f[m])

\* a & b for non-negative a, b
RECURSIVE BitAnd(_, _)
BitAnd(a, b) ==
    IF a = 0 \/ b = 0 THEN 0
    ELSE (a % 2) * (b % 2) + 2 * BitAnd(a \div 2, b \div 2)

\* n <= 0 || (n & 1) != 0
InvalidSize_odd(n) == n <= 0 \/ BitAnd(n, 1) /= 0

\* n <= 0 || (n & (n - 1)) != 0
InvalidSize(n) == n <= 0 \/ BitAnd(n, n - 1) /= 0

\* std::polar(1.0, 2 * M_PI * i / n) * z
polar_conj(i, n, z) == MulZeta(z, CDiv(RingOrder, n) * i)

\* std::polar(1.0, -2 * M_PI * i / n) * z
polar(i, n, z) == MulZeta(z, 0 - CDiv(RingOrder, n) * i)

RECURSIVE fft(_, _)
fft(input, n) ==
    IF InvalidSize(n) THEN Raised("invalid_argument")
    ELSE IF n = 1 THEN Returned(<<input[1]>>)
    ELSE LET h == CDiv(n, 2)
             even == [i \in 1 .. h |-> input[2 * i - 1]]
             odd == [i \in 1 .. h |-> input[2 * i]]
             evenOut == fft(even, h)
         IN  IF evenOut.err /= "none" THEN evenOut
             ELSE LET oddOut == fft(odd, h)
                  IN  IF oddOut.err /= "none" THEN oddOut
                      ELSE Returned([k \in 1 .. n |->
                              IF k <= h
                              THEN CAdd(evenOut.out[k], polar(k - 1, n, oddOut.out[k]))
                              ELSE CSub(evenOut.out[k - h],
                                        polar(k - h - 1, n, oddOut.out[k - h]))])

\* floor of the square root of x, 0 <= x < 2^31
RECURSIVE SqrtBetween(_, _, _)
SqrtBetween(x, lo, hi) ==
    IF lo = hi THEN lo
    ELSE LET mid == (lo + hi + 1) \div 2
         IN  IF mid * mid <= x THEN SqrtBetween(x, mid, hi) ELSE SqrtBetween(x, lo, mid - 1)

ISqrt(x) == SqrtBetween(x, 0, 46340)

\* abs(z) * vScale, rounded down to a whole number; vScale = <<p, q>> is p / q
\* and z has whole real and imaginary parts, as every bin of a block of at most
\* four samples has
magnitude(z, vScale) ==
    ISqrt((real(z) * real(z) + imag(z) * imag(z)) * vScale[1] * vScale[1]) \div vScale[2]

Min(a, b) == IF a <= b THEN a ELSE b

\* static_cast<sample> of a whole number: the low 16 bits, two's complement
ToSample(x) == ((x + 32768) % 65536) - 32768

\* std::min(static_cast<sample>(magnitude), MAX_SAMPLE_VALUE)
Clip_late(m) == Min(ToSample(m), MAX_SAMPLE_VALUE)

\* static_cast<sample>(std::min(magnitude, MAX_SAMPLE_VALUE))
Clip(m) == ToSample(Min(m, MAX_SAMPLE_VALUE))

FindFrequencyContent(input, n, vScale) ==
    IF InvalidSize(n) THEN Raised("invalid_argument")
    ELSE LET fftin == [i \in 1 .. n |-> cmplx(input[i], 0)]
             fftout == fft(fftin, n)
         IN  IF fftout.err /= "none" THEN fftout
             ELSE Returned([i \in 1 .. n |-> Clip(magnitude(fftout.out[i], vScale))])

\* arguments
FftSamples == {cmplx(0, 0), cmplx(1, 0), cmplx(0, 1)}

Sizes(m) == (0 - 1) .. m

Arrays(n, S, filler) ==
    IF InvalidSize(n) THEN {[i \in 1 .. (IF n < 0 THEN 0 ELSE n) |-> filler]}
    ELSE [1 .. n -> S]

BlockSamples == {0, 1, 11000, 0 - 11000}

Scales == {<<0, 1>>, <<1, 1>>, <<1, 200>>}

FftInit ==
    /\ QueueUntouched
    /\ DictionaryUnbuilt
    /\ \E n \in Sizes(MaxN) : \E x \in Arrays(n, FftSamples, cmplx(1, 0)) :
          call = Pending_call("fft", [n |-> n, input |-> x])

FrequencyInit ==
    /\ QueueUntouched
    /\ DictionaryUnbuilt
    /\ \E n \in Sizes(MaxBlock) : \E x \in Arrays(n, BlockSamples, 1) : \E v \in Scales :
          call = Pending_call("FindFrequencyContent", [n |-> n, input |-> x, vScale |-> v])

Fft ==
    /\ call.fn = "fft" /\ ~call.done
    /\ call' = [call EXCEPT !.done = TRUE, !.res = fft(call.arg.input, call.arg.n)]
    /\ UNCHANGED <<seqvars, concvars, dictvars>>

FindFrequency ==
    /\ call.fn = "FindFrequencyContent" /\ ~call.done
    /\ call' = [call EXCEPT !.done = TRUE,
                   !.res = FindFrequencyContent(call.arg.input, call.arg.n, call.arg.vScale)]
    /\ UNCHANGED <<seqvars, concvars, dictvars>>

FftNext == Fft \/ FindFrequency

SpecFft == (FftInit \/ FrequencyInit) /\ [][FftNext]_vars

-----------------------------------------------------------------------------
(* Properties of fft and FindFrequencyContent (SpecFft) *)

Spectral == call.fn \in {"fft", "FindFrequencyContent"} /\ call.done

PowersOfTwo == {n \in 1 .. (MaxN + MaxBlock) : \E k \in 0 .. n : 2 ^ k = n}

\* C11: fft and FindFrequencyContent accept a size n exactly when n is a
\* positive power of two; for every other n (zero, negative, 6, ...) they raise
\* invalid_argument and have written nothing to the output; a call with a valid
\* n raises nothing (the recursive calls on n / 2 down to 1 are all accepted)
\* and fills n outputs.
C11_SizeValidation ==
    Spectral =>
        /\ call.res.err = "none" <=> call.arg.n \in PowersOfTwo
        /\ call.res.err /= "none" => call.res.err = "invalid_argument" /\ call.res.out = <<>>
        /\ call.res.err = "none" => DOMAIN call.res.out = 1 .. call.arg.n

\* a call with size 6 was refused
C11_Witness == Spectral /\ call.arg.n = 6 /\ call.res.err = "invalid_argument"


\* the discrete Fourier sum of x: bin k is the sum over j of
\* x[j] * exp(-2 pi i j k / n)
DFT(x, n) ==
    [k \in 1 .. n |->
        CSum([j \in 1 .. n |-> MulZeta(x[j], 0 - (RingOrder \div n) * (j - 1) * (k - 1))], n)]

Alternating(x, n) ==
    CSum([j \in 1 .. n |-> IF j % 2 = 1 THEN x[j] ELSE CSub(cmplx(0, 0), x[j])], n)

TestSignal == [j \in 1 .. 8 |-> IF j <= 4 THEN cmplx(1, 0) ELSE cmplx(0, 0)]

\* C12: for every power-of-two n the output of fft is the discrete Fourier sum
\* of its input: bin 0 is the sum of the inputs (4 for 1,1,1,1,0,0,0,0), bin
\* n / 2 the alternating sum, and for n = 1 the output is the input.
C12_FftIsDft ==
    (call.fn = "fft" /\ call.done /\ call.arg.n \in PowersOfTwo) =>
        LET n == call.arg.n
            x == call.arg.input
            y == call.res.out
        IN  /\ y = DFT(x, n)
            /\ y[1] = CSum(x, n)
            /\ n >= 2 => y[n \div 2 + 1] = Alternating(x, n)
            /\ n = 1 => y = x
            /\ x = TestSignal => y[1] = cmplx(4, 0)

\* the transform of 1,1,1,1,0,0,0,0 has been computed
C12_Witness ==
    call.fn = "fft" /\ call.done /\ call.arg.input = TestSignal /\ call.res.err = "none"

\* C13: for a valid n and a scale >= 0, FindFrequencyContent writes exactly n
\* outputs, each the magnitude of the Fourier bin times the scale, cut at 32767
\* and truncated to a whole sample, so each lies in [0, 32767] and none wraps
\* to a negative value.
C13_MagnitudeSaturates ==
    (call.fn = "FindFrequencyContent" /\ call.done /\ call.arg.n \in PowersOfTwo) =>
        LET n == call.arg.n
            v == call.arg.vScale
            bins == DFT([i \in 1 .. n |-> cmplx(call.arg.input[i], 0)], n)
        IN  /\ call.res.err = "none"
            /\ DOMAIN call.res.out = 1 .. n
            /\ \A i \in 1 .. n :
                  LET m == call.res.out[i]
                      \* floor of |bin|
                      s == ISqrt(real(bins[i]) * real(bins[i]) + imag(bins[i]) * imag(bins[i]))
                  IN  /\ m \in 0 .. 32767
                      /\ m < 32767 => m * v[2] <= s * v[1] /\ s * v[1] < (m + 1) * v[2]
                      /\ m = 32767 => s * v[1] >= 32767 * v[2]

\* a block whose strongest bin exceeds 32767 and was cut to 32767
C13_Witness ==
    /\ call.fn = "FindFrequencyContent" /\ call.done /\ call.res.err = "none"
    /\ call.arg.n = 4 /\ call.arg.vScale = <<1, 1>>
    /\ \A i \in 1 .. 4 : call.arg.input[i] = 11000
    /\ call.res.out[1] = 32767

-----------------------------------------------------------------------------
(* Find_n_Largest (SpecPeaks) *)

\* longest array handed to Find_n_Largest
MaxIn == 4

\* size <= threshold
validate_size(size, threshold) == size <= threshold

\* the comparison of std::sort with its operands exchanged: a.second < b.second
Before_ascending(input, a, b) == input[a + 1] < input[b + 1]

\* the comparison handed to std::sort, on the indices a and b of
\* indexed_input: a.second > b.second
Before(input, a, b) == input[a + 1] > input[b + 1]

\* the orders std::sort may leave the indices S in: nothing is said about the
\* order of elements that compare equal
RECURSIVE Sorted(_, _)
Sorted(input, S) ==
    IF S = {} THEN {<<>>}
    ELSE UNION {{<<m>> \o rest : rest \in Sorted(input, S \ {m})} :
                    m \in {a \in S : \A b \in S : ~Before(input, b, a)}}

Abs(x) == IF x < 0 THEN 0 - x ELSE x

\* the selection loop from position i of indexed_input on, output holding the
\* indices written so far
RECURSIVE Select(_, _, _, _, _)
Select(indexed_input, i, output, n_out, ignore_clumped) ==
    IF ~(i <= Len(indexed_input) /\ Len(output) < n_out) THEN output
    ELSE LET index == indexed_input[i]
             count == Len(output)
         IN  IF ignore_clumped /\ count > 0 /\ Abs(output[count] - index) = 1
             THEN Select(indexed_input, i + 1, output, n_out, ignore_clumped)
             ELSE Select(indexed_input, i + 1, Append(output, index), n_out, ignore_clumped)

\* the results Find_n_Largest can produce, one for each order std::sort can
\* leave the elements in; input is what the caller's array holds afterwards
Find_n_Largest(input, n_out, n_in, ignore_clumped) ==
    IF validate_size(n_in, 0) THEN {[err |-> "invalid_argument", out |-> <<>>, input |-> input]}
    ELSE {[err |-> "none",
           out |-> Select(indexed_input, 1, <<>>, n_out, ignore_clumped),
           input |-> input] : indexed_input \in Sorted(input, 0 .. (n_in - 1))}

\* arguments
Levels == {1, 2, 3}

TestLevels == <<5, 2, 9, 1, 7>>

PeaksInit ==
    /\ QueueUntouched
    /\ DictionaryUnbuilt
    /\ \E x \in UNION {[1 .. n -> Levels] : n \in 0 .. MaxIn} \cup {TestLevels} :
       \E n_in \in {Len(x)} \cup (IF x = <<>> THEN {0 - 1} ELSE {}) :
       \E n_out \in 0 .. (Len(x) + 1) : \E c \in BOOLEAN :
          call = Pending_call("Find_n_Largest",
                     [input |-> x, n_out |-> n_out, n_in |-> n_in, ignore_clumped |-> c])

FindLargest ==
    /\ call.fn = "Find_n_Largest" /\ ~call.done
    /\ \E r \in Find_n_Largest(call.arg.input, call.arg.n_out, call.arg.n_in,
                               call.arg.ignore_clumped) :
          call' = [call EXCEPT !.done = TRUE, !.res = r]
    /\ UNCHANGED <<seqvars, concvars, dictvars>>

SpecPeaks == PeaksInit /\ [][FindLargest]_vars

-----------------------------------------------------------------------------
(* Properties of Find_n_Largest (SpecPeaks) *)

PeaksDone(clumped) ==
    /\ call.fn = "Find_n_Largest" /\ call.done
    /\ call.arg.ignore_clumped = clumped
    /\ call.arg.n_in > 0
    /\ call.arg.n_out \in 0 .. call.arg.n_in

\* C14: without declumping, for n_in > 0 and 0 <= n_out <= n_in,
\* Find_n_Largest writes exactly n_out pairwise distinct indices in [0, n_in),
\* in order of non-increasing value, every value left out being at most the
\* smallest one selected (5,2,9,1,7 with n_out = 3 gives 2,4,0); the input
\* array is not modified.
C14_LargestFirst ==
    PeaksDone(FALSE) =>
        LET x == call.arg.input
            y == call.res.out
            chosen == {y[i] : i \in 1 .. Len(y)}
        IN  /\ call.res.err = "none"
            /\ Len(y) = call.arg.n_out
            /\ chosen \subseteq 0 .. (call.arg.n_in - 1)
            /\ Cardinality(chosen) = Len(y)
            /\ \A i \in 1 .. (Len(y) - 1) : x[y[i] + 1] >= x[y[i + 1] + 1]
            /\ \A j \in (0 .. (call.arg.n_in - 1)) \ chosen : \A k \in chosen : x[j + 1] <= x[k + 1]
            /\ call.res.input = x
            /\ (x = TestLevels /\ call.arg.n_out = 3) => y = <<2, 4, 0>>

\* the three largest of 5,2,9,1,7 have been found
C14_Witness ==
    /\ PeaksDone(FALSE) /\ call.arg.input = TestLevels /\ call.arg.n_out = 3
    /\ call.res.out = <<2, 4, 0>>

\* C15: with declumping, no two of the indices written differ by exactly 1,
\* whatever the input and n_out.
C15_NoAdjacentPeaks ==
    (call.fn = "Find_n_Largest" /\ call.done /\ call.arg.ignore_clumped) =>
        \A i, j \in 1 .. Len(call.res.out) : Abs(call.res.out[i] - call.res.out[j]) /= 1

\* the call Find_n_Largest(output, {3, 1, 1, 2}, 3, 4, true) has written 0, 3, 1
C15_Failing ==
    /\ call.fn = "Find_n_Largest" /\ call.done /\ call.arg.ignore_clumped
    /\ call.arg.input = <<3, 1, 1, 2>> /\ call.arg.n_out = 3
    /\ call.res.out = <<0, 3, 1>>

\* with declumping, an index is never written next to the one written just
\* before it
Clumped_NotNextToPrevious ==
    (call.fn = "Find_n_Largest" /\ call.done /\ call.arg.ignore_clumped) =>
        \A i \in 1 .. (Len(call.res.out) - 1) : Abs(call.res.out[i] - call.res.out[i + 1]) /= 1

-----------------------------------------------------------------------------
(* approx_hcf (SpecHcf) *)

\* most inputs handed to approx_hcf
MaxInputs == 3

RECURSIVE GCD(_, _)
GCD(a, b) == IF b = 0 THEN a ELSE GCD(b, a % b)

(* float.  A non-negative value is kept exactly as a fraction <<p, q>> in
   lowest terms; <<1, 0>> is +infinity and <<0, 0>> is NaN, which is what the
   division by 0 yields.  The rounding of float arithmetic is not
   represented. *)
Float(p, q) ==
    LET g == GCD(p, q) IN IF g = 0 THEN <<0, 0>> ELSE <<p \div g, q \div g>>

\* a / b
FDiv(a, b) == Float(a[1] * b[2], a[2] * b[1])

\* a < b, false when either is NaN
FLess(a, b) == a /= <<0, 0>> /\ b /= <<0, 0>> /\ a[1] * b[2] < b[1] * a[2]

\* std::max(a, b)
FMax(a, b) == IF FLess(a, b) THEN b ELSE a

\* std::min(a, b)
FMin(a, b) == IF FLess(b, a) THEN b ELSE a

\* ratio >= accuracy_threshold
Exceeds_ge(ratio, accuracy_threshold) ==
    FLess(Float(accuracy_threshold, 1), ratio) \/ ratio = Float(accuracy_threshold, 1)

\* ratio > accuracy_threshold
Exceeds(ratio, accuracy_threshold) == FLess(Float(accuracy_threshold, 1), ratio)

\* stages lists the ratio computed in each two-input reduction, innermost first
RECURSIVE approx_hcf(_, _, _)
approx_hcf(inputs, num_inputs, accuracy_threshold) ==
    IF validate_size(num_inputs, 1)
    THEN [err |-> "invalid_argument", out |-> Float(0, 1), stages |-> <<>>]
    ELSE IF num_inputs = 2
    THEN LET ratio == FDiv(FMax(inputs[1], inputs[2]), FMin(inputs[1], inputs[2]))
         IN  [err |-> "none",
              out |-> IF Exceeds(ratio, accuracy_threshold) THEN Float(0, 1)
                      ELSE FDiv(inputs[1], ratio),
              stages |-> <<ratio>>]
    ELSE LET smaller_hcf == approx_hcf(Tail(inputs), num_inputs - 1, accuracy_threshold)
         IN  IF smaller_hcf.err /= "none" THEN smaller_hcf
             ELSE LET hcf_inputs == <<inputs[1], smaller_hcf.out>>
                      result == approx_hcf(hcf_inputs, 2, accuracy_threshold)
                  IN  [result EXCEPT !.stages = smaller_hcf.stages \o result.stages]

\* arguments
Tones == {Float(1, 1), Float(2, 1), Float(3, 1), Float(4, 1)}

TestTones == <<Float(15, 1), Float(10, 1), Float(9, 2)>>

Thresholds == {1, 3, 10}

HcfInit ==
    /\ QueueUntouched
    /\ DictionaryUnbuilt
    /\ \E x \in UNION {[1 .. n -> Tones] : n \in 0 .. MaxInputs} \cup {TestTones} :
       \E t \in Thresholds :
          call = Pending_call("approx_hcf",
                     [inputs |-> x, num_inputs |-> Len(x), accuracy_threshold |-> t])

ApproxHcf ==
    /\ call.fn = "approx_hcf" /\ ~call.done
    /\ call' = [call EXCEPT !.done = TRUE,
                   !.res = approx_hcf(call.arg.inputs, call.arg.num_inputs,
                                      call.arg.accuracy_threshold)]
    /\ UNCHANGED <<seqvars, concvars, dictvars>>

SpecHcf == HcfInit /\ [][ApproxHcf]_vars

-----------------------------------------------------------------------------
(* Properties of approx_hcf (SpecHcf) *)

HcfDone == call.fn = "approx_hcf" /\ call.done /\ call.arg.num_inputs >= 2

Whole(x) == \A i \in 1 .. Len(x) : x[i][2] = 1

RECURSIVE GcdOf(_)
GcdOf(x) == IF Len(x) = 0 THEN 0 ELSE GCD(x[1][1], GcdOf(Tail(x)))

WithinThreshold ==
    \A i \in 1 .. Len(call.res.stages) :
        ~Exceeds(call.res.stages[i], call.arg.accuracy_threshold)

\* C16: for inputs that are whole multiples m_i * f of a fundamental f (the
\* m_i without a common factor) whose ratios stay within the threshold at every
\* stage, approx_hcf returns f, in whatever order the inputs come ({f, 2f} and
\* {2f, f} both give f, {2f, 3f} gives f).
C16_HcfOfMultiples ==
    (HcfDone /\ Whole(call.arg.inputs) /\ WithinThreshold) =>
        call.res.out = Float(GcdOf(call.arg.inputs), 1)

\* approx_hcf({1, 2}, 2) with the default threshold has returned 1 / 2
C16_Failing ==
    /\ HcfDone /\ call.arg.inputs = <<Float(1, 1), Float(2, 1)>> /\ call.arg.accuracy_threshold = 10
    /\ call.res.out = Float(1, 2)

\* C17: approx_hcf raises nothing for two or more positive inputs.  For two
\* inputs it returns 0 exactly when max / min exceeds the threshold and
\* inputs[0] / (max / min) otherwise; for three or more, once the ratio exceeds
\* the threshold at some stage (a tail estimate of 0 included) the result is 0,
\* as for {15, 10, 4.5} with threshold 1.
C17_ThresholdGivesZero ==
    HcfDone =>
        LET x == call.arg.inputs
            t == call.arg.accuracy_threshold
            y == call.res.out
        IN  /\ call.res.err = "none"
            /\ call.arg.num_inputs = 2 =>
                  LET hi == IF FLess(x[1], x[2]) THEN x[2] ELSE x[1]
                      lo == IF FLess(x[1], x[2]) THEN x[1] ELSE x[2]
                      \* max / min > t
                      over == hi[1] * lo[2] > t * lo[1] * hi[2]
                  IN  /\ y = Float(0, 1) <=> over
                      \* y * max = inputs[0] * min
                      /\ ~over => y[1] * hi[1] * x[1][2] * lo[2] = x[1][1] * lo[1] * y[2] * hi[2]
            /\ \A i \in 1 .. (Len(call.res.stages) - 1) :
                  call.res.stages[i + 1] = Float(1, 0) <=> Exceeds(call.res.stages[i], t)
            /\ ~WithinThreshold => y = Float(0, 1)
            /\ (x = TestTones /\ t = 1) => y = Float(0, 1)

\* {15, 10, 4.5} with threshold 1 has given 0, the tail estimate being 0 already
C17_Witness ==
    /\ HcfDone /\ call.arg.inputs = TestTones /\ call.arg.accuracy_threshold = 1
    /\ Exceeds(call.res.stages[1], 1)
    /\ call.res.stages[2] = Float(1, 0)
    /\ call.res.out = Float(0, 1)

-----------------------------------------------------------------------------
(* pitchNumber and pitchName (SpecPitch) *)

\* the frequencies handed to pitchNumber lie within this many octaves of 440 Hz
MaxOctaves == 2

(* A positive frequency is kept as its distance from 440 Hz in cents:
   [sign |-> 1, cents |-> c] is 440 * 2^(c / 1200) Hz, so that doubling adds
   1200 cents and 880 Hz is 1200 cents.  Zero and the negative frequencies are
   [sign |-> 0, ...] and [sign |-> -1, ...].  The rounding of float arithmetic
   is not represented. *)
Frequency(s, c) == [sign |-> s, cents |-> c]

\* while (freq < 440) freq *= 2
RECURSIVE RaiseOctaves(_)
RaiseOctaves(c) == IF c < 0 THEN RaiseOctaves(c + 1200) ELSE c

\* while (freq > 880) freq /= 2
RECURSIVE LowerOctaves(_)
LowerOctaves(c) == IF c > 1200 THEN LowerOctaves(c - 1200) ELSE c

\* std::round(std::log(freq / 440.0) / std::log(semitone)): the number of
\* semitones, halves rounded away from zero
Semitones(c) == IF c >= 0 THEN CDiv(c + 50, 100) ELSE 0 - CDiv(50 - c, 100)

\* pitch_num left as computed
clamp_none(x, lo, hi) == x

\* std::clamp
clamp(x, lo, hi) == IF x < lo THEN lo ELSE IF hi < x THEN hi ELSE x

pitchNumber(freq) ==
    IF freq.sign <= 0 THEN [err |-> "invalid_argument", out |-> 0, centsSharp |-> 0]
    ELSE LET c == LowerOctaves(RaiseOctaves(freq.cents))
             pitch_num == clamp(Semitones(c), 0, 11)
         IN  [err |-> "none", out |-> pitch_num + 1, centsSharp |-> c - 100 * pitch_num]

names ==
    << <<"A">>, <<"A", "#">>, <<"B">>, <<"C">>, <<"C", "#">>, <<"D">>, <<"D", "#">>,
       <<"E">>, <<"F">>, <<"F", "#">>, <<"G">>, <<"G", "#">> >>

\* name is the caller's character array; the characters of the pitch are
\* copied over its beginning and no terminator is written
pitchName(name, pitch_num) ==
    IF pitch_num < 1 \/ pitch_num > 12 THEN [err |-> "out_of_range", out |-> 0, name |-> name]
    ELSE LET pitch == names[pitch_num]
         IN  [err |-> "none",
              out |-> Len(pitch),
              name |-> [i \in 1 .. Len(name) |-> IF i <= Len(pitch) THEN pitch[i] ELSE name[i]]]

\* arguments
Frequencies ==
    {Frequency(1, c) : c \in (0 - 1200 * MaxOctaves) .. (1200 * MaxOctaves)}
        \cup {Frequency(0, 0), Frequency(0 - 1, 0)}

PitchInit ==
    /\ QueueUntouched
    /\ DictionaryUnbuilt
    /\ \E f \in Frequencies : call = Pending_call("pitchNumber", [freq |-> f])

PitchNumber ==
    /\ call.fn = "pitchNumber" /\ ~call.done
    /\ call' = [call EXCEPT !.done = TRUE, !.res = pitchNumber(call.arg.freq)]
    /\ UNCHANGED <<seqvars, concvars, dictvars>>

SpecPitch == PitchInit /\ [][PitchNumber]_vars

-----------------------------------------------------------------------------
(* Properties of pitchNumber (SpecPitch) *)

PitchDone == call.fn = "pitchNumber" /\ call.done

Doubled(f) == Frequency(f.sign, f.cents + 1200)

\* C18: pitchNumber brings every positive frequency into [440, 880), so
\* pitchNumber(f) = pitchNumber(2f) for every f > 0, and every 440 * 2^k
\* (220, 440, 880, 1760, ...) gives 1 (A) with 0 cents.
C18_OctaveInvariant ==
    (PitchDone /\ call.arg.freq.sign = 1) =>
        /\ call.res.out = pitchNumber(Doubled(call.arg.freq)).out
        /\ call.arg.freq.cents % 1200 = 0 => call.res.out = 1 /\ call.res.centsSharp = 0

\* pitchNumber(880) has returned 12 (G#), 100 cents sharp
C18_Failing ==
    /\ PitchDone /\ call.arg.freq = Frequency(1, 1200)
    /\ call.res.out = 12 /\ call.res.centsSharp = 100

\* what does hold: frequencies an octave apart get the same number unless one
\* of them is 880 * 2^k with k >= 0
OctaveInvariant_Except880 ==
    (PitchDone /\ call.arg.freq.sign = 1
        /\ ~(call.arg.freq.cents % 1200 = 0 /\ call.arg.freq.cents >= 0)) =>
        call.res.out = pitchNumber(Doubled(call.arg.freq)).out

\* C19: pitchNumber raises invalid_argument for freq <= 0; for every freq > 0
\* it returns (the loops end) a number in [1, 12], which pitchName accepts.
C19_PitchRange ==
    PitchDone =>
        /\ call.arg.freq.sign <= 0 => call.res.err = "invalid_argument"
        /\ call.arg.freq.sign = 1 =>
              /\ call.res.err = "none"
              /\ call.res.out \in 1 .. 12
              /\ pitchName(<<"?", "?", "?">>, call.res.out).err = "none"

\* a frequency just below 880 Hz, more than 11.5 semitones above 440 Hz, has
\* been given the number 12
C19_Witness ==
    /\ PitchDone /\ call.arg.freq = Frequency(1, 1199)
    /\ call.res.out = 12

-----------------------------------------------------------------------------
(* transpose_chord (SpecChord) *)

\* the shifts handed to transpose_chord run from -MaxShift to MaxShift
MaxShift == 12

CHORD_NAME_SIZE == 15

CHORD_MAX_NOTES == 5

NUM_CHORD_TYPES == 11

\* the terminating character '\0'
NUL == ""

\* struct chord: notes beyond num_notes are 0 and the name array is filled up
\* with '\0', as aggregate initialisation leaves them
Chord(n, notes, name) ==
    [num_notes |-> n,
     notes |-> [i \in 1 .. CHORD_MAX_NOTES |-> IF i <= Len(notes) THEN notes[i] ELSE 0],
     name |-> [i \in 1 .. CHORD_NAME_SIZE |-> IF i <= Len(name) THEN name[i] ELSE NUL]]

A_root_chords ==
    << Chord(4, <<1, 5, 8, 3>>, <<"A", " ", "a", "d", "d", "9">>),
       Chord(4, <<1, 5, 8, 12>>, <<"A", " ", "M", "a", "j", "7">>),
       Chord(4, <<1, 4, 8, 11>>, <<"A", " ", "m", "i", "n", "7">>),
       Chord(4, <<1, 5, 8, 11>>, <<"A", " ", "d", "o", "m", "7">>),
       Chord(4, <<1, 4, 8, 12>>, <<"A", " ", "m", "i", "n", "M", "a", "j", "7">>),
       Chord(3, <<1, 4, 7>>, <<"A", " ", "d", "i", "m">>),
       Chord(3, <<1, 6, 8>>, <<"A", " ", "s", "u", "s", "4">>),
       Chord(3, <<1, 3, 8>>, <<"A", " ", "s", "u", "s", "2">>),
       Chord(3, <<1, 5, 8>>, <<"A", " ", "M", "a", "j">>),
       Chord(3, <<1, 4, 8>>, <<"A", " ", "m", "i", "n">>),
       Chord(2, <<1, 8>>, <<"A", " ", "5">>) >>

\* (note + semitones_up - 1) % 12 + 1
Transposed_nowrap(note, semitones_up) == CRem(note + semitones_up - 1, 12) + 1

\* ((note + semitones_up - 1) % 12 + 12) % 12 + 1
Transposed(note, semitones_up) == CRem(CRem(note + semitones_up - 1, 12) + 12, 12) + 1

\* passed is the caller's chord after the call: old_chord is taken by value
transpose_chord(old_chord, semitones_up) ==
    IF semitones_up < 0 - 11 \/ semitones_up > 11
    THEN [err |-> "invalid_argument", out |-> old_chord, passed |-> old_chord]
    ELSE LET notes == [i \in 1 .. CHORD_MAX_NOTES |->
                          IF i <= old_chord.num_notes
                          THEN Transposed(old_chord.notes[i], semitones_up)
                          ELSE old_chord.notes[i]]
             named == pitchName(old_chord.name, notes[1])
         IN  IF named.err /= "none"
             THEN [err |-> named.err, out |-> old_chord, passed |-> old_chord]
             ELSE [err |-> "none",
                   out |-> [old_chord EXCEPT !.notes = notes, !.name = named.name],
                   passed |-> old_chord]

\* arguments: the chords of the table and their transpositions to every root
Chords ==
    {transpose_chord(A_root_chords[i], j).out : i \in 1 .. NUM_CHORD_TYPES, j \in 0 .. 11}
        \cup {A_root_chords[i] : i \in 1 .. NUM_CHORD_TYPES}

ChordInit ==
    /\ QueueUntouched
    /\ DictionaryUnbuilt
    /\ \E c \in Chords : \E s \in (0 - MaxShift) .. MaxShift :
          call = Pending_call("transpose_chord", [old_chord |-> c, semitones_up |-> s])

Transpose ==
    /\ call.fn = "transpose_chord" /\ ~call.done
    /\ call' = [call EXCEPT !.done = TRUE,
                   !.res = transpose_chord(call.arg.old_chord, call.arg.semitones_up)]
    /\ UNCHANGED <<seqvars, concvars, dictvars>>

SpecChord == ChordInit /\ [][Transpose]_vars

-----------------------------------------------------------------------------
(* Properties of transpose_chord (SpecChord) *)

TransposeDone == call.fn = "transpose_chord" /\ call.done

\* the string a name array holds: its characters before the first '\0'
RECURSIVE CStr(_)
CStr(name) ==
    IF name = <<>> \/ Head(name) = NUL THEN <<>> ELSE <<Head(name)>> \o CStr(Tail(name))

A_Maj == A_root_chords[9]

\* C20: transpose_chord(c, s) raises invalid_argument for every s outside
\* [-11, 11]; for s inside it keeps num_notes, takes every note n to
\* ((n + s - 1) mod 12 + 12) mod 12 + 1, a note in [1, 12], so that all
\* intervals between the notes are kept modulo 12, and leaves the chord passed
\* in as it was ({1,5,8} 'A Maj' by +2 gives {3,7,10} 'B Maj', by -11 {2,6,9}).
C20_Transpose ==
    TransposeDone =>
        LET c == call.arg.old_chord
            s == call.arg.semitones_up
            t == call.res.out
        IN  /\ s \notin (0 - 11) .. 11 => call.res.err = "invalid_argument"
            /\ s \in (0 - 11) .. 11 =>
                  /\ call.res.err = "none"
                  /\ t.num_notes = c.num_notes
                  /\ \A i \in 1 .. c.num_notes :
                        /\ t.notes[i] = ((c.notes[i] + s - 1) % 12) + 1
                        /\ t.notes[i] \in 1 .. 12
                  /\ \A i, j \in 1 .. c.num_notes :
                        (t.notes[i] - t.notes[j]) % 12 = (c.notes[i] - c.notes[j]) % 12
            /\ call.res.passed = c
            /\ (c = A_Maj /\ s = 2) =>
                  /\ SubSeq(t.notes, 1, 3) = <<3, 7, 10>>
                  /\ CStr(t.name) = <<"B", " ", "M", "a", "j">>
            /\ (c = A_Maj /\ s = 0 - 11) => SubSeq(t.notes, 1, 3) = <<2, 6, 9>>

\* 'A Maj' has been transposed down by 11 semitones, to {2, 6, 9}
C20_Witness ==
    /\ TransposeDone /\ call.arg.old_chord = A_Maj /\ call.arg.semitones_up = 0 - 11
    /\ call.res.err = "none"
    /\ SubSeq(call.res.out.notes, 1, 3) = <<2, 6, 9>>
    /\ CStr(call.res.out.name) = <<"A", "#", "M", "a", "j">>

-----------------------------------------------------------------------------
(* The chord dictionary: initialize_chord_dictionary and identify_chord, one
   caller (SpecDict) *)

\* most notes handed to identify_chord
MaxNotes == 3

\* most calls made in one run
MaxCalls == 2

\* static storage is zero-initialised
ZeroChord == Chord(0, <<>>, <<>>)

\* all_chords[k], table being the entries written so far
Entry(table, k) == IF k < Len(table) THEN table[k + 1] ELSE ZeroChord

\* the value stored at index k = i * 12 + j, with the row and column exchanged:
\* transpose_chord(A_root_chords[k % NUM_CHORD_TYPES], k / NUM_CHORD_TYPES)
BuiltEntry_swapped(k) ==
    transpose_chord(A_root_chords[(k % NUM_CHORD_TYPES) + 1], k \div NUM_CHORD_TYPES).out

\* the value stored at index k = i * 12 + j: transpose_chord(A_root_chords[i], j)
BuiltEntry(k) == transpose_chord(A_root_chords[(k \div 12) + 1], k % 12).out

\* the flag after a build that does not record it
Built_unflagged(table) == [all_chords |-> table, initialized |-> FALSE]

\* the table and the flag after the two loops and the assignment of the flag
Built(table) == [all_chords |-> table, initialized |-> TRUE]

initialize_chord_dictionary(table, initialized) ==
    IF initialized THEN [all_chords |-> table, initialized |-> initialized]
    ELSE Built([k \in 1 .. (NUM_CHORD_TYPES * 12) |-> BuiltEntry(k - 1)])

\* chord::contains with the result of the first input note found
contains_any(c, notes_in, num_notes_in) ==
    \E i \in 1 .. num_notes_in : \E j \in 1 .. c.num_notes : c.notes[j] = notes_in[i]

\* chord::contains
contains(c, notes_in, num_notes_in) ==
    \A i \in 1 .. num_notes_in : \E j \in 1 .. c.num_notes : c.notes[j] = notes_in[i]

\* the second loop without the comparison of the root with notes[0]
RECURSIVE Filter_first(_, _, _, _, _, _)
Filter_first(table, candidates, i, best_candidate, min_size, notes) ==
    IF i > Len(candidates) THEN best_candidate
    ELSE IF Entry(table, candidates[i]).num_notes < min_size
    THEN Filter_first(table, candidates, i + 1, candidates[i],
                      Entry(table, candidates[i]).num_notes, notes)
    ELSE Filter_first(table, candidates, i + 1, best_candidate, min_size, notes)

\* the second loop of identify_chord from candidates[i] on; it yields
\* best_candidate
RECURSIVE Filter(_, _, _, _, _, _)
Filter(table, candidates, i, best_candidate, min_size, notes) ==
    IF i > Len(candidates) THEN best_candidate
    ELSE LET candidate_index == candidates[i]
             c == Entry(table, candidate_index)
         IN  IF c.num_notes < min_size \/ (c.num_notes = min_size /\ c.notes[1] = notes[1])
             THEN Filter(table, candidates, i + 1, candidate_index, c.num_notes, notes)
             ELSE Filter(table, candidates, i + 1, best_candidate, min_size, notes)

\* the characters of name up to its first '\0', from position i on
RECURSIVE NameFrom(_, _)
NameFrom(name, i) == IF name[i] = NUL THEN <<>> ELSE <<name[i]>> \o NameFrom(name, i + 1)

\* the value of an expression, computed once
Only(S) == CHOOSE x \in S : TRUE

\* identify_chord from the test of the name of best_candidate on; name_out is
\* the caller's array afterwards
Named(c, name_out) ==
    IF c.name[1] = NUL THEN [err |-> "runtime_error", out |-> 0, name_out |-> name_out]
    ELSE Only({[err |-> "none",
                out |-> Len(name),
                name_out |-> [i \in 1 .. Len(name_out) |->
                                 IF i <= Len(name) THEN name[i]
                                 ELSE IF i = Len(name) + 1 THEN NUL
                                 ELSE name_out[i]]] : name \in {NameFrom(c.name, 1)}})

\* identify_chord from the test of num_candidates on
Chosen(table, candidates, name_out, notes) ==
    IF Len(candidates) = 0 THEN [err |-> "none", out |-> 0, name_out |-> name_out]
    ELSE Only({IF best_candidate = 0 - 1
               THEN [err |-> "none", out |-> 0, name_out |-> name_out]
               ELSE Named(Entry(table, best_candidate), name_out) :
                   best_candidate \in {Filter(table, candidates, 1, 0 - 1, 2147483647, notes)}})

\* the part of identify_chord that reads the table
Match(table, name_out, notes, num_notes) ==
    Only({Chosen(table, candidates, name_out, notes) :
             candidates \in {SelectSeq([k \in 1 .. (NUM_CHORD_TYPES * 12) |-> k - 1],
                                 LAMBDA k : contains(Entry(table, k), notes, num_notes))}})

\* a null name_out
nullptr == <<>>

\* the result of the call and the dictionary after it
identify_chord(table, initialized, name_out, notes, num_notes) ==
    IF name_out = nullptr
    THEN [err |-> "invalid_argument", out |-> 0, name_out |-> name_out,
          all_chords |-> table, initialized |-> initialized]
    ELSE Only({Only({[err |-> r.err, out |-> r.out, name_out |-> r.name_out,
                      all_chords |-> d.all_chords, initialized |-> d.initialized] :
                        r \in {IF num_notes <= 0
                               THEN [err |-> "invalid_argument", out |-> 0, name_out |-> name_out]
                               ELSE Match(d.all_chords, name_out, notes, num_notes)}}) :
                  d \in {IF ~initialized THEN initialize_chord_dictionary(table, initialized)
                         ELSE [all_chords |-> table, initialized |-> initialized]}})

\* arguments
NoteValues == {1, 5, 6, 8, 12}

A_Maj7_notes == <<1, 5, 8, 12>>

\* a caller's array that has not been written yet
Unwritten == [i \in 1 .. CHORD_NAME_SIZE |-> "?"]

IdentifyArgs ==
    {[name_out |-> Unwritten, notes |-> x, num_notes |-> Len(x)] :
        x \in UNION {[1 .. n -> NoteValues] : n \in 0 .. MaxNotes} \cup {A_Maj7_notes}}
        \cup {[name_out |-> nullptr, notes |-> <<1, 5, 8>>, num_notes |-> 3]}

\* made lists the calls made so far
DictInit ==
    /\ QueueUntouched
    /\ DictionaryUnbuilt
    /\ \E a \in IdentifyArgs :
          call = [fn |-> "identify_chord", arg |-> a, done |-> FALSE, res |-> <<>>, made |-> <<>>]

InitializeDictionary ==
    /\ call.fn = "identify_chord" /\ Len(call.made) < MaxCalls
    /\ \E d \in {initialize_chord_dictionary(all_chords, chord_dictionary_initialized)} :
           /\ all_chords' = d.all_chords
           /\ chord_dictionary_initialized' = d.initialized
    /\ call' = [call EXCEPT !.made = Append(@, "initialize_chord_dictionary")]
    /\ UNCHANGED <<seqvars, concvars, callers>>

IdentifyChord ==
    /\ call.fn = "identify_chord" /\ Len(call.made) < MaxCalls
    /\ \E r \in {identify_chord(all_chords, chord_dictionary_initialized,
                               call.arg.name_out, call.arg.notes, call.arg.num_notes)} :
           /\ all_chords' = r.all_chords
           /\ chord_dictionary_initialized' = r.initialized
           /\ call' = [call EXCEPT !.done = TRUE,
                          !.res = [err |-> r.err, out |-> r.out, name_out |-> r.name_out],
                          !.made = Append(@, "identify_chord")]
    /\ UNCHANGED <<seqvars, concvars, callers>>

DictNext == InitializeDictionary \/ IdentifyChord

SpecDict == DictInit /\ [][DictNext]_vars

-----------------------------------------------------------------------------
(* Properties of the chord dictionary (SpecDict) *)

\* C21: the first initialize_chord_dictionary call builds the 132 entries and
\* sets the flag; every later call of initialize_chord_dictionary or
\* identify_chord, in any order, leaves the entries and the flag as they are;
\* the flag never returns to false.
C21_BuiltOnce ==
    [][/\ chord_dictionary_initialized =>
              chord_dictionary_initialized' /\ all_chords' = all_chords
       /\ (~chord_dictionary_initialized
              /\ call'.made = Append(call.made, "initialize_chord_dictionary")) =>
              chord_dictionary_initialized' /\ Len(all_chords') = NUM_CHORD_TYPES * 12
       /\ ~chord_dictionary_initialized' => all_chords' = <<>>]_vars

\* the dictionary was built by initialize_chord_dictionary and an
\* identify_chord followed
C21_Witness ==
    /\ call.fn = "identify_chord"
    /\ call.made = <<"initialize_chord_dictionary", "identify_chord">>
    /\ chord_dictionary_initialized
    /\ Len(all_chords) = NUM_CHORD_TYPES * 12

IdentifyDone ==
    /\ call.fn = "identify_chord" /\ call.done
    /\ call.arg.name_out /= nullptr /\ call.arg.num_notes > 0

NoteSet(notes, n) == {notes[i] : i \in 1 .. n}

\* the entries whose notes include every input note
Supersets == {k \in 1 .. Len(all_chords) :
                 NoteSet(call.arg.notes, call.arg.num_notes)
                     \subseteq NoteSet(all_chords[k].notes, all_chords[k].num_notes)}

\* those of them with the fewest notes
Smallest == {k \in Supersets : \A h \in Supersets : all_chords[k].num_notes <= all_chords[h].num_notes}

Written(k) == CStr(call.res.name_out) = CStr(all_chords[k].name)

\* C22: for a non-empty input identify_chord returns 0, leaving name_out
\* untouched, exactly when no dictionary chord includes all input notes;
\* otherwise the chord it names includes them and no including chord has fewer
\* notes, whatever the order and multiplicity of the input notes, and the
\* returned integer is the length of the NUL-terminated name written
\* ({1,5,8} gives 'A Maj', 5; {1,5,8,12} gives 'A Maj7', 6).
C22_MostSpecific ==
    IdentifyDone =>
        /\ call.res.err = "none"
        /\ call.res.out = 0 <=> Supersets = {}
        /\ call.res.out = 0 => call.res.name_out = call.arg.name_out
        /\ call.res.out /= 0 =>
              /\ \E k \in Smallest : Written(k)
              /\ call.res.out = Len(CStr(call.res.name_out))
              /\ call.res.name_out[call.res.out + 1] = NUL
        /\ call.arg.notes = <<1, 5, 8>> =>
              CStr(call.res.name_out) = <<"A", " ", "M", "a", "j">> /\ call.res.out = 5
        /\ call.arg.notes = A_Maj7_notes =>
              CStr(call.res.name_out) = <<"A", " ", "M", "a", "j", "7">> /\ call.res.out = 6

\* {1, 5, 8, 12} has been identified as 'A Maj7'
C22_Witness ==
    /\ IdentifyDone /\ call.arg.notes = A_Maj7_notes
    /\ call.res.out = 6
    /\ CStr(call.res.name_out) = <<"A", " ", "M", "a", "j", "7">>

\* C23: when one of the including chords with the fewest notes has the first
\* input note as its root, the chord identify_chord names has that root
\* ({1,6,8} gives 'A sus4', {6,8,1} gives 'D sus2').
C23_RootTieBreak ==
    IdentifyDone =>
        /\ (\E k \in Smallest : all_chords[k].notes[1] = call.arg.notes[1]) =>
              \E k \in Smallest : Written(k) /\ all_chords[k].notes[1] = call.arg.notes[1]
        /\ call.arg.notes = <<1, 6, 8>> =>
              CStr(call.res.name_out) = <<"A", " ", "s", "u", "s", "4">>
        /\ call.arg.notes = <<6, 8, 1>> =>
              CStr(call.res.name_out) = <<"D", " ", "s", "u", "s", "2">>

\* {6, 8, 1}, which 'A sus4' and 'D sus2' both include, has been identified as
\* 'D sus2'
C23_Witness ==
    /\ IdentifyDone /\ call.arg.notes = <<6, 8, 1>>
    /\ Cardinality(Smallest) = 2
    /\ CStr(call.res.name_out) = <<"D", " ", "s", "u", "s", "2">>

IsPrefix(p, s) == Len(p) <= Len(s) /\ SubSeq(s, 1, Len(p)) = p

\* C25: once the dictionary is initialized, entry i * 12 + j (shape i, root
\* offset j) has the note count of shape i, root note j + 1, all notes in
\* [1, 12] and pairwise distinct, and a non-empty name that begins with the
\* pitch name of note j + 1; identify_chord therefore never raises the
\* runtime error for an empty name.
C25_WellFormed ==
    /\ chord_dictionary_initialized =>
          /\ Len(all_chords) = NUM_CHORD_TYPES * 12
          /\ \A i \in 0 .. (NUM_CHORD_TYPES - 1) : \A j \in 0 .. 11 :
                LET c == all_chords[i * 12 + j + 1]
                    set == NoteSet(c.notes, c.num_notes)
                IN  /\ c.num_notes = A_root_chords[i + 1].num_notes
                    /\ c.notes[1] = j + 1
                    /\ set \subseteq 1 .. 12
                    /\ Cardinality(set) = c.num_notes
                    /\ CStr(c.name) /= <<>>
                    /\ IsPrefix(names[j + 1], CStr(c.name))
    /\ (call.fn = "identify_chord" /\ call.done) => call.res.err /= "runtime_error"

\* the dictionary was built by the first identify_chord, which found a chord
C25_Witness ==
    /\ IdentifyDone /\ call.made = <<"identify_chord">>
    /\ chord_dictionary_initialized
    /\ call.res.out > 0

-----------------------------------------------------------------------------
(* identify_chord called from two contexts at once (SpecLazy).  The contexts
   interleave at the reads and writes of chord_dictionary_initialized and
   between the iterations of the outer loop of initialize_chord_dictionary;
   the table is read in one step.  Neither the flag nor the table is
   synchronized, so a build may let the store of the flag become visible
   before the stores of the loop that precedes it: callers.early. *)

LazyNotes == << <<1, 5, 8>>, <<6, 8, 1>> >>

Caller(c) == [pc |-> "call", i |-> 0, notes |-> LazyNotes[c], res |-> <<>>]

LazyInit ==
    /\ QueueUntouched
    /\ call = NoCall
    /\ all_chords = <<>>
    /\ chord_dictionary_initialized = FALSE
    /\ \E e \in BOOLEAN : callers = [early |-> e, of |-> [c \in 1 .. Len(LazyNotes) |-> Caller(c)]]

At(c, pc) == callers.of[c].pc = pc

Goto(c, pc) == callers' = [callers EXCEPT !.of[c].pc = pc]

\* identify_chord: if (!chord_dictionary_initialized)
LazyCheck(c) ==
    /\ At(c, "call")
    /\ Goto(c, IF chord_dictionary_initialized THEN "match" ELSE "initialize")
    /\ UNCHANGED <<seqvars, concvars, call, all_chords, chord_dictionary_initialized>>

\* initialize_chord_dictionary: if (chord_dictionary_initialized) return
LazyEnter(c) ==
    /\ At(c, "initialize")
    /\ Goto(c, IF chord_dictionary_initialized THEN "match" ELSE "build")
    /\ UNCHANGED <<seqvars, concvars, call, all_chords, chord_dictionary_initialized>>

\* one iteration of the outer loop: the twelve entries of shape i
LazyBuild(c) ==
    /\ At(c, "build")
    /\ callers.of[c].i < NUM_CHORD_TYPES
    /\ all_chords' = [k \in 1 .. Len(all_chords) |->
                         IF (k - 1) \div 12 = callers.of[c].i THEN BuiltEntry(k - 1)
                         ELSE all_chords[k]]
                     \o (IF Len(all_chords) = callers.of[c].i * 12
                         THEN [j \in 1 .. 12 |-> BuiltEntry(callers.of[c].i * 12 + j - 1)]
                         ELSE <<>>)
    /\ callers' = [callers EXCEPT !.of[c].i = @ + 1]
    /\ UNCHANGED <<seqvars, concvars, call, chord_dictionary_initialized>>

\* chord_dictionary_initialized = true, after the loops
LazyFlag(c) ==
    /\ At(c, "build")
    /\ callers.of[c].i = NUM_CHORD_TYPES
    /\ chord_dictionary_initialized' = TRUE
    /\ Goto(c, "match")
    /\ UNCHANGED <<seqvars, concvars, call, all_chords>>

\* the store of the flag becomes visible while the loops are still running
LazyFlagEarly(c) ==
    /\ callers.early
    /\ At(c, "build")
    /\ callers.of[c].i < NUM_CHORD_TYPES
    /\ ~chord_dictionary_initialized
    /\ chord_dictionary_initialized' = TRUE
    /\ UNCHANGED <<seqvars, concvars, call, all_chords, callers>>

\* the rest of identify_chord
LazyMatch(c) ==
    /\ At(c, "match")
    /\ callers' = [callers EXCEPT !.of[c].pc = "done",
                      !.of[c].res = Match(all_chords, Unwritten, callers.of[c].notes,
                                          Len(callers.of[c].notes))]
    /\ UNCHANGED <<seqvars, concvars, call, all_chords, chord_dictionary_initialized>>

LazyNext ==
    \E c \in 1 .. Len(LazyNotes) :
        \/ LazyCheck(c)
        \/ LazyEnter(c)
        \/ LazyBuild(c)
        \/ LazyFlag(c)
        \/ LazyFlagEarly(c)
        \/ LazyMatch(c)

SpecLazy == LazyInit /\ [][LazyNext]_vars

-----------------------------------------------------------------------------
(* Properties of identify_chord under two contexts (SpecLazy) *)

Alone(notes) ==
    Match([k \in 1 .. (NUM_CHORD_TYPES * 12) |-> BuiltEntry(k - 1)], Unwritten, notes, Len(notes))

\* C24: identify_chord calls made concurrently on independent inputs, also
\* when more than one of them runs the lazy initialization, each return what
\* the same call returns alone on the fully initialized dictionary; none
\* matches against a partially built table.
C24_LazyInitSafe ==
    \A c \in 1 .. Len(LazyNotes) :
        At(c, "done") => callers.of[c].res = Alone(callers.of[c].notes)

\* the table was matched only when all of its entries had been written
MatchedComplete ==
    \A c \in 1 .. Len(LazyNotes) : At(c, "match") => Len(all_chords) = NUM_CHORD_TYPES * 12

\* the same when the stores become visible in program order
InOrder_LazyInitSafe == ~callers.early => C24_LazyInitSafe /\ MatchedComplete

-----------------------------------------------------------------------------
(* Failure atomicity of AudioQueue *)

\* C26: a push that fails with overflow and a pop, peek or peekFreshData that
\* fails with underflow leave inpos, outpos and every stored sample as they
\* were before the call and write nothing to the caller's output array, so
\* the FIFO content is intact
C26_FailureAtomic ==
    [][last'.err \in {"overflow", "underflow"} =>
          /\ inpos' = inpos
          /\ outpos' = outpos
          /\ audio' = audio
          /\ out' = <<>>
          /\ fifo' = fifo]_vars

\* a call that asked for samples failed on a queue that holds data and has
\* wrapped
C26_Witness ==
    /\ last.err \in {"overflow", "underflow"}
    /\ last.n > 0
    /\ fifo # <<>>
    /\ inpos < outpos

-----------------------------------------------------------------------------
(* Capacity failures of concurrent calls *)

\* C27: with RecCallback and PlayCallback interleaved at each read of inpos
\* and outpos, a push(n) fails with overflow only if fewer than n free slots
\* existed at some instant during the call, and a pop(n) fails with underflow
\* only if fewer than n unread samples existed at some instant during the
\* call.  Only the other side moves during the validation and it only adds
\* free slots (unread samples), so the least count is the one at entry
C27_NoSpuriousFailure ==
    [][/\ (prod.pc = "validate" /\ prod'.err = "overflow")
            => (len - 1) - (produced - prod.from) < prod.n
       /\ (cons.pc = "validate" /\ cons'.err = "underflow")
            => cons.from - Len(popped) < cons.n]_vars



-----------------------------------------------------------------------------
(* Sample counts of either sign.  n_samples is an int and no member of        *)
(* AudioQueue tests its sign.                                                 *)

\* the sample counts tried against a queue of length l, negative ones included
SignedCounts(l) == (0 - l) .. l

\* the calls of Spec with counts of either sign.  A call with a negative
\* count is the last one followed: fifo and recent, the data model of the
\* queue, have no meaning after it
SignedNext ==
    /\ last.n >= 0
    /\ \/ \E n \in SignedCounts(len), v \in PushVolumes :
              \E x \in (IF space_available(n) THEN Inputs(n) ELSE {SomeInput(n)}) :
                  Push(x, n, v)
       \/ \E n \in SignedCounts(len), v \in Volumes : Pop(n, v)
       \/ \E n \in SignedCounts(len), v \in Volumes : Peek(n, v)
       \/ \E n \in SignedCounts(len), v \in Volumes : PeekFreshData(n, v)

SpecSigned == Init /\ [][SignedNext]_vars

\* C28: a push, pop, peek or peekFreshData called with n_samples < 0 either
\* fails or leaves the cursors unchanged, and after it inpos and outpos are
\* still in [0, len) and pending is at most len - 1
C28_NegativeCountSafe ==
    [][last'.n < 0 =>
          /\ last'.err # "none" \/ (inpos' = inpos /\ outpos' = outpos)
          /\ inpos' \in 0 .. (len - 1)
          /\ outpos' \in 0 .. (len - 1)
          /\ CRem(inpos' - outpos' + len, len) \in 0 .. (len - 1)]_vars

-----------------------------------------------------------------------------
(* Transposition applied twice (SpecChord) *)

\* C29: for every chord c with notes in [1, 12] and every s, t in [-11, 11],
\* transpose_chord(transpose_chord(c, s), -s) equals c in notes and display
\* name, and transpose_chord(transpose_chord(c, s), t) equals, in notes and
\* display name, c transposed directly by (s + t) mod 12
C29_RoundTrip ==
    (TransposeDone /\ call.res.err = "none") =>
        LET c == call.arg.old_chord
            s == call.arg.semitones_up
            once == call.res.out
            back == transpose_chord(once, 0 - s).out
        IN  /\ back.notes = c.notes
            /\ CStr(back.name) = CStr(c.name)
            /\ \A t \in (0 - 11) .. 11 :
                  LET twice == transpose_chord(once, t).out
                      direct == transpose_chord(c, (s + t) % 12).out
                  IN  /\ twice.notes = direct.notes
                      /\ CStr(twice.name) = CStr(direct.name)

-----------------------------------------------------------------------------
(* Nearest semitone (SpecPitch) *)

\* C30: for every freq > 0 pitchNumber returns the pitch class of the
\* equal-tempered semitone nearest to freq modulo octaves: the cents deviation
\* lies in [-50, +50] and is the distance of freq from a semitone of the
\* class returned; a frequency 40 cents flat of an A (430 Hz, 860 Hz) is
\* pitch 1 with a negative deviation
C30_NearestSemitone ==
    (PitchDone /\ call.arg.freq.sign = 1) =>
        /\ call.res.centsSharp \in (0 - 50) .. 50
        /\ (call.arg.freq.cents - 100 * (call.res.out - 1) - call.res.centsSharp)
               % 1200 = 0
        /\ call.arg.freq.cents \in {0 - 40, 1160} =>
               call.res.out = 1 /\ call.res.centsSharp < 0

====
